---- MODULE Spec2Model ----
(***************************************************************************)
(* State-machine model of the two SIMD benchmark programs                  *)
(*   src/simd/compute_simple.c  (scalar kernel  compute)                   *)
(*   src/simd/compute_sse.c     (vector kernel  compute_sse)               *)
(* Both share the same main(): argument check, three posix_memalign calls, *)
(* the fill loop, start timestamp, one kernel call, end timestamp, printf  *)
(* of result[0..3].                                                        *)
(*                                                                         *)
(* Machine widths are scaled down: int has IntBits bits, size_t has        *)
(* SizeBits bits, a float keeps MantBits significant bits.  Conversions    *)
(* wrap modulo 2^w exactly as the C conversions do.                        *)
(*                                                                         *)
(* Undefined behaviour (access through a pointer whose allocation failed,  *)
(* access outside the n elements of a buffer) is a nondeterministic choice *)
(* between a crash and continuing; when the program continues, stores that *)
(* land outside the modelled buffers are dropped, loads give Undef, and    *)
(* the flag ub records that the run is no longer defined.                  *)
(***************************************************************************)
EXTENDS Integers, Sequences, FiniteSets, TLC

VARIABLES prog, argc, pc, n, dummy, bufs, data1, data2, result,
          i, kn, nsse, clock, start_t, end_t, diff_t, out, log, ub, kern

vars == << prog, argc, pc, n, dummy, bufs, data1, data2, result,
           i, kn, nsse, clock, start_t, end_t, diff_t, out, log, ub, kern >>

(***************************************************************************)
(* Widths and bounds                                                       *)
(***************************************************************************)
IntBits == 4

SizeBits == IntBits + 3

IntMod == 2 ^ IntBits

SizeMod == 2 ^ SizeBits

INT_MAX == 2 ^ (IntBits - 1) - 1

Beyond == 5

\* Largest element count explored: beyond the range of int, and small
\* enough that sizeof(float)*n does not wrap in size_t.
MaxN == IntMod + Beyond

MantBits == 4

KMaxLen == 5

(***************************************************************************)
(* Program constants                                                       *)
(***************************************************************************)
VecBits == 128

SizeofFloat == 4

LaneStep == 4

Alignment == 32

VecBytes == VecBits \div 8

Buffers == {"data1", "data2", "result"}

PrintedIdx == {0, 1, 2, 3}

Programs == {"simple", "sse"}

\* content of memory nobody has written yet, and of a value obtained by UB
Undef == -1

(***************************************************************************)
(* C conversions                                                           *)
(***************************************************************************)
\* size_t -> int (argument passing at the call compute_sse(..., n))
ToInt(x) ==
    LET m == x % IntMod IN IF m > INT_MAX THEN m - IntMod ELSE m

\* int -> size_t (usual arithmetic conversions in n/nb_items)
ToSize(k) == k % SizeMod

(***************************************************************************)
(* float arithmetic on the non-negative integers the programs produce:     *)
(* round to nearest, ties to even, MantBits significant bits               *)
(***************************************************************************)
RECURSIVE Ulp(_)
Ulp(x) == IF x < 2 ^ MantBits THEN 1 ELSE 2 * Ulp(x \div 2)

RoundF(x) ==
    LET q   == Ulp(x)
        lo  == (x \div q) * q
        rem == x - lo
    IN  IF 2 * rem < q THEN lo
        ELSE IF 2 * rem > q THEN lo + q
        ELSE IF (lo \div q) % 2 = 0 THEN lo ELSE lo + q

ToFloat(x) == RoundF(x)

FAdd(x, y) == IF x = Undef \/ y = Undef THEN Undef ELSE RoundF(x + y)

FMul(x, y) == IF x = Undef \/ y = Undef THEN Undef ELSE RoundF(x * y)

(***************************************************************************)
(* Kernels                                                                 *)
(***************************************************************************)
Get(m, j) == IF j \in DOMAIN m THEN m[j] ELSE Undef

ComputeCondBug(j, cnt) == j + 1 < cnt

\* loop condition of compute
ComputeCond(j, cnt) == j < cnt

\* body of compute's loop: r[i] = a[i] + b[i]
ComputeStep(r, a, b, j) ==
    [x \in DOMAIN r |-> IF x = j THEN FAdd(Get(a, j), Get(b, j)) ELSE r[x]]

RECURSIVE ComputeLoop(_, _, _, _, _)
ComputeLoop(r, a, b, cnt, j) ==
    IF ComputeCond(j, cnt)
    THEN ComputeLoop(ComputeStep(r, a, b, j), a, b, cnt, j + 1)
    ELSE r

compute(r, a, b, cnt) == ComputeLoop(r, a, b, cnt, 0)

nb_items == VecBits \div (SizeofFloat * 8)

NsseOfBug(k) == (((ToSize(k) + nb_items - 1) \div nb_items) * nb_items) % SizeMod

\* const size_t nsse = (n/nb_items)*nb_items, n an int converted to size_t
NsseOf(k) == ((ToSize(k) \div nb_items) * nb_items) % SizeMod

AddPsBug(x, y) == FMul(x, y)

\* one lane of _mm_add_ps
AddPs(x, y) == FAdd(x, y)

\* body of compute_sse's loop: four lanes loaded, added, stored
SseStep(r, a, b, j) ==
    [x \in DOMAIN r |->
        IF x >= j /\ x < j + LaneStep
        THEN AddPs(Get(a, x), Get(b, x))
        ELSE r[x]]

RECURSIVE SseLoop(_, _, _, _, _)
SseLoop(r, a, b, lim, j) ==
    IF j < lim
    THEN SseLoop(SseStep(r, a, b, j), a, b, lim, j + LaneStep)
    ELSE r

compute_sse(r, a, b, k) == SseLoop(r, a, b, NsseOf(k), 0)

(***************************************************************************)
(* main(): state after construction                                        *)
(***************************************************************************)
NoBuf == [state |-> "unallocated", base |-> 0]

Empty == [j \in {} |-> Undef]

KernOff == [pc |-> "off", n |-> 0, a |-> Empty, b |-> Empty,
            r |-> Empty, rs |-> Empty, rv |-> Empty]

DriverInit ==
    /\ pc = "main"
    /\ n = 0
    /\ dummy = "unset"
    /\ bufs = [b \in Buffers |-> NoBuf]
    /\ data1 = Empty
    /\ data2 = Empty
    /\ result = Empty
    /\ i = 0
    /\ kn = 0
    /\ nsse = 0
    /\ clock = 0
    /\ start_t = 0
    /\ end_t = 0
    /\ diff_t = 0
    /\ out = << >>
    /\ log = << >>
    /\ ub = FALSE

Init ==
    /\ prog \in Programs
    /\ argc \in {1, 2}
    /\ DriverInit
    /\ kern = KernOff

(***************************************************************************)
(* main(): one action per statement or loop iteration                      *)
(***************************************************************************)
Ok(b) == bufs[b].state = "allocated"

AllOk == \A b \in Buffers : Ok(b)

AnyFailed == \E b \in Buffers : bufs[b].state = "failed"

Fresh(cnt) == [j \in 0 .. cnt - 1 |-> Undef]

\* posix_memalign returns 0 with a 32-byte aligned block (for a size of 0,
\* possibly NULL)
AlignedAddrs(cnt) ==
    {Alignment, 2 * Alignment} \cup (IF cnt = 0 THEN {0} ELSE {})

\* after a failed posix_memalign the pointer keeps the indeterminate value
\* of the uninitialised local
WildAddrs == {0, Alignment + SizeofFloat}

Tick == clock' = clock + 1

\* if (argc < 2) { printf(usage); return 1; }
Usage ==
    /\ pc = "main"
    /\ argc < 2
    /\ pc' = "exit1"
    /\ UNCHANGED << prog, argc, n, dummy, bufs, data1, data2, result, i, kn,
                    nsse, clock, start_t, end_t, diff_t, out, log, ub, kern >>

\* const size_t n = atoll(argv[1]);
ParseCount ==
    /\ pc = "main"
    /\ ~(argc < 2)
    /\ \E cnt \in 0 .. MaxN : n' = cnt % SizeMod
    /\ pc' = "alloc1"
    /\ UNCHANGED << prog, argc, dummy, bufs, data1, data2, result, i, kn,
                    nsse, clock, start_t, end_t, diff_t, out, log, ub, kern >>

\* dummy = posix_memalign((void**) &b, 32, sizeof(float)*n);
\* the return value is stored in dummy and never tested
posix_memalign(b, from, to) ==
    /\ pc = from
    /\ \E st \in {"allocated", "failed"} :
         \E addr \in (IF st = "allocated" THEN AlignedAddrs(n) ELSE WildAddrs) :
            LET m == IF st = "allocated" THEN Fresh(n) ELSE Empty IN
            /\ bufs' = [bufs EXCEPT ![b] = [state |-> st, base |-> addr]]
            /\ dummy' = IF st = "allocated" THEN "ok" ELSE "ENOMEM"
            /\ data1' = IF b = "data1" THEN m ELSE data1
            /\ data2' = IF b = "data2" THEN m ELSE data2
            /\ result' = IF b = "result" THEN m ELSE result
    /\ pc' = to
    /\ i' = 0
    /\ log' = Append(log, "alloc")
    /\ Tick
    /\ UNCHANGED << prog, argc, n, kn, nsse, start_t, end_t, diff_t, out,
                    ub, kern >>

FillCondBug(j, cnt) == j + 1 < cnt

\* loop condition of the fill loop in main
FillCond(j, cnt) == j < cnt

\* data1[i] = (float)i;  data2[i] = (float)i*2;
FillIter ==
    /\ pc = "fill"
    /\ FillCond(i, n)
    /\ LET valid == Ok("data1") /\ Ok("data2")
           store ==
             /\ data1' = IF Ok("data1")
                         THEN [data1 EXCEPT ![i] = ToFloat(i)] ELSE data1
             /\ data2' = IF Ok("data2")
                         THEN [data2 EXCEPT ![i] = FMul(ToFloat(i), 2)]
                         ELSE data2
             /\ i' = (i + 1) % SizeMod
             /\ pc' = pc
       IN  \/ valid /\ store /\ ub' = ub
           \/ ~valid /\ store /\ ub' = TRUE
           \/ ~valid /\ pc' = "crashed" /\ ub' = TRUE
                     /\ UNCHANGED << data1, data2, i >>
    /\ log' = Append(log, "fill")
    /\ Tick
    /\ UNCHANGED << prog, argc, n, dummy, bufs, result, kn, nsse,
                    start_t, end_t, diff_t, out, kern >>

FillExit ==
    /\ pc = "fill"
    /\ ~FillCond(i, n)
    /\ pc' = "t0"
    /\ Tick
    /\ UNCHANGED << prog, argc, n, dummy, bufs, data1, data2, result, i, kn,
                    nsse, start_t, end_t, diff_t, out, log, ub, kern >>

\* start_t = get_timestamp();
GetStart ==
    /\ pc = "t0"
    /\ start_t' = clock
    /\ pc' = "call"
    /\ log' = Append(log, "start")
    /\ Tick
    /\ UNCHANGED << prog, argc, n, dummy, bufs, data1, data2, result, i, kn,
                    nsse, end_t, diff_t, out, ub, kern >>

\* compute(result, data1, data2, n);   n stays a size_t
CallCompute ==
    /\ pc = "call"
    /\ prog = "simple"
    /\ i' = 0
    /\ pc' = "compute"
    /\ log' = Append(log, "compute")
    /\ Tick
    /\ UNCHANGED << prog, argc, n, dummy, bufs, data1, data2, result, kn,
                    nsse, start_t, end_t, diff_t, out, ub, kern >>

ComputeIter ==
    /\ pc = "compute"
    /\ ComputeCond(i, n)
    /\ LET valid == AllOk
           store ==
             /\ result' = IF Ok("result")
                          THEN ComputeStep(result, data1, data2, i)
                          ELSE result
             /\ i' = (i + 1) % SizeMod
             /\ pc' = pc
       IN  \/ valid /\ store /\ ub' = ub
           \/ ~valid /\ store /\ ub' = TRUE
           \/ ~valid /\ pc' = "crashed" /\ ub' = TRUE
                     /\ UNCHANGED << result, i >>
    /\ Tick
    /\ UNCHANGED << prog, argc, n, dummy, bufs, data1, data2, kn, nsse,
                    start_t, end_t, diff_t, out, log, kern >>

ComputeExit ==
    /\ pc = "compute"
    /\ ~ComputeCond(i, n)
    /\ pc' = "t1"
    /\ Tick
    /\ UNCHANGED << prog, argc, n, dummy, bufs, data1, data2, result, i, kn,
                    nsse, start_t, end_t, diff_t, out, log, ub, kern >>

\* compute_sse(result, data1, data2, n);   n is narrowed to the int parameter
CallSse ==
    /\ pc = "call"
    /\ prog = "sse"
    /\ kn' = ToInt(n)
    /\ nsse' = NsseOf(ToInt(n))
    /\ i' = 0
    /\ pc' = "compute_sse"
    /\ log' = Append(log, "compute_sse")
    /\ Tick
    /\ UNCHANGED << prog, argc, n, dummy, bufs, data1, data2, result,
                    start_t, end_t, diff_t, out, ub, kern >>

\* the aligned accesses of one iteration are defined when the three buffers
\* exist, the four elements lie inside them and the addresses are multiples
\* of 16
SseAccessOk(j) ==
    /\ AllOk
    /\ j + LaneStep <= n
    /\ \A b \in Buffers : (bufs[b].base + SizeofFloat * j) % VecBytes = 0

SseIter ==
    /\ pc = "compute_sse"
    /\ i < nsse
    /\ LET valid == SseAccessOk(i)
           store ==
             /\ result' = IF Ok("result")
                          THEN SseStep(result, data1, data2, i)
                          ELSE result
             /\ i' = (i + LaneStep) % SizeMod
             /\ pc' = pc
       IN  \/ valid /\ store /\ ub' = ub
           \/ ~valid /\ store /\ ub' = TRUE
           \/ ~valid /\ pc' = "crashed" /\ ub' = TRUE
                     /\ UNCHANGED << result, i >>
    /\ Tick
    /\ UNCHANGED << prog, argc, n, dummy, bufs, data1, data2, kn, nsse,
                    start_t, end_t, diff_t, out, log, kern >>

SseExit ==
    /\ pc = "compute_sse"
    /\ ~(i < nsse)
    /\ pc' = "t1"
    /\ Tick
    /\ UNCHANGED << prog, argc, n, dummy, bufs, data1, data2, result, i, kn,
                    nsse, start_t, end_t, diff_t, out, log, ub, kern >>

\* diff_t = end_t - start_t;
Elapsed(e, s) == e - s

\* end_t = get_timestamp(); diff_t = end_t - start_t;
GetEnd ==
    /\ pc = "t1"
    /\ end_t' = clock
    /\ diff_t' = Elapsed(clock, start_t)
    /\ pc' = "print"
    /\ log' = Append(log, "end")
    /\ Tick
    /\ UNCHANGED << prog, argc, n, dummy, bufs, data1, data2, result, i, kn,
                    nsse, start_t, out, ub, kern >>

\* printf(elapsed); printf("%f %f %f %f\n", result[0], ..., result[3]);
\* return 0;   (no free() anywhere in main)
PrintResult ==
    /\ pc = "print"
    /\ LET valid == Ok("result") /\ \A k \in PrintedIdx : k < n
           read  == out' = [k \in 1 .. Cardinality(PrintedIdx) |->
                              Get(result, k - 1)]
       IN  \/ valid /\ read /\ pc' = "done" /\ ub' = ub
           \/ ~valid /\ read /\ pc' = "done" /\ ub' = TRUE
           \/ ~valid /\ pc' = "crashed" /\ ub' = TRUE /\ out' = out
    /\ log' = Append(log, "read")
    /\ Tick
    /\ UNCHANGED << prog, argc, n, dummy, bufs, data1, data2, result, i, kn,
                    nsse, start_t, end_t, diff_t, kern >>

Next ==
    \/ Usage
    \/ ParseCount
    \/ posix_memalign("data1", "alloc1", "alloc2")
    \/ posix_memalign("data2", "alloc2", "alloc3")
    \/ posix_memalign("result", "alloc3", "fill")
    \/ FillIter
    \/ FillExit
    \/ GetStart
    \/ CallCompute
    \/ ComputeIter
    \/ ComputeExit
    \/ CallSse
    \/ SseIter
    \/ SseExit
    \/ GetEnd
    \/ PrintResult

Spec == Init /\ [][Next]_vars

(***************************************************************************)
(* The two kernels as functions, called on the same arbitrary arrays.      *)
(* The arrays have kern.n elements; kern.n is a count both parameter types *)
(* (size_t for compute, int for compute_sse) can hold.                     *)
(***************************************************************************)
KVals == {3, 18}

KLens == {l \in 0 .. KMaxLen : l <= INT_MAX}

KInit ==
    /\ prog = "sse"
    /\ argc = 2
    /\ DriverInit
    /\ \E len \in KLens :
         \E fa \in [0 .. len - 1 -> KVals] :
           \E fb \in [0 .. len - 1 -> KVals] :
             \E fr \in [0 .. len - 1 -> KVals] :
               kern = [pc |-> "init", n |-> len, a |-> fa, b |-> fb,
                       r |-> fr, rs |-> fr, rv |-> fr]

DriverVars == << prog, argc, pc, n, dummy, bufs, data1, data2, result,
                 i, kn, nsse, clock, start_t, end_t, diff_t, out, log, ub >>

\* compute(rs, a, b, n) on a copy of r
KCallCompute ==
    /\ kern.pc = "init"
    /\ kern' = [kern EXCEPT !.pc = "scalar_done",
                            !.rs = compute(kern.r, kern.a, kern.b, kern.n)]
    /\ UNCHANGED DriverVars

\* compute_sse(rv, a, b, n) on a copy of r
KCallSse ==
    /\ kern.pc = "scalar_done"
    /\ kern' = [kern EXCEPT !.pc = "both_done",
                            !.rv = compute_sse(kern.r, kern.a, kern.b,
                                               ToInt(kern.n))]
    /\ UNCHANGED DriverVars

KNext == KCallCompute \/ KCallSse

KernelSpec == KInit /\ [][KNext]_vars

(***************************************************************************)
(* Properties                                                              *)
(***************************************************************************)
\* the value the input generator's formula gives for index j, in float
\* arithmetic: float(j) + float(2*j)
Expected(j) == FAdd(ToFloat(j), ToFloat(2 * j))

\* floor(cnt/4)*4 over the mathematical integers
Covered(cnt) == (cnt \div 4) * 4

AfterKernel == pc \in {"t1", "print", "done"}

\* C1: scalar run -- once compute has returned on three allocated buffers,
\* every index j in [0, n) holds result[j] = float(j) + float(2*j).
C1_ScalarResult ==
    (prog = "simple" /\ AllOk /\ AfterKernel)
        => \A j \in 0 .. n - 1 : result[j] = Expected(j)

C1_Witness ==
    /\ prog = "simple" /\ AllOk /\ pc = "done" /\ ~ub
    /\ n > IntMod
    /\ result[n - 1] = Expected(n - 1)
    /\ result[n - 1] # 3 * (n - 1)

\* C2: vectorized run -- once compute_sse has returned on three allocated
\* buffers, every index j in [0, floor(n/4)*4) holds
\* result[j] = float(j) + float(2*j).
C2_SseResult ==
    (prog = "sse" /\ AllOk /\ AfterKernel)
        => \A j \in 0 .. Covered(n) - 1 : Get(result, j) = Expected(j)

\* C3: the vectorized kernel does not write the tail -- after
\* compute_sse(r, a, b, n), every r[j] with j in [floor(n/4)*4, n) has the
\* value it had before the call, and for n < 4 nothing is written.
C3_TailUnwritten ==
    (kern.pc = "both_done")
        => /\ \A j \in Covered(kern.n) .. kern.n - 1 : kern.rv[j] = kern.r[j]
           /\ (kern.n < 4 => kern.rv = kern.r)

C3_Witness ==
    /\ kern.pc = "both_done"
    /\ kern.n = 5
    /\ kern.rv[4] = kern.r[4]
    /\ \A j \in 0 .. 3 : kern.rv[j] # kern.r[j]

\* C4: an allocation failure is fatal -- after a failed allocation no
\* further step of the run (fill, kernel call, result read) executes.
C4_AllocFailureFatal ==
    AnyFailed => \A k \in 1 .. Len(log) : log[k] = "alloc"

\* C5: the driver releases its buffers -- when the run ends no buffer that
\* was allocated is still held.
C5_BuffersReleased ==
    (pc \in {"done", "exit1"}) => \A b \in Buffers : ~Ok(b)

KernelName == IF prog = "simple" THEN "compute" ELSE "compute_sse"

\* the order the claim gives: three allocations, n fill iterations, start
\* timestamp, one kernel call, end timestamp, result read
ExpectedLog ==
    [k \in 1 .. n + 7 |->
        IF k <= 3 THEN "alloc"
        ELSE IF k <= n + 3 THEN "fill"
        ELSE IF k = n + 4 THEN "start"
        ELSE IF k = n + 5 THEN KernelName
        ELSE IF k = n + 6 THEN "end"
        ELSE "read"]

LogOrdered ==
    (pc \notin {"main", "exit1"})
        => /\ Len(log) <= Len(ExpectedLog)
           /\ \A k \in 1 .. Len(log) : log[k] = ExpectedLog[k]
           /\ (pc = "done" => log = ExpectedLog)
           /\ (pc \in {"print", "done"} => diff_t = end_t - start_t)

Timed == pc \in {"call", "compute", "compute_sse", "t1"}

\* C6: timing is isolated to the compute step -- the steps of a run that
\* passed the argument check occur in the order allocate x3, fill for every
\* i in [0, n), start timestamp, exactly one kernel call, end timestamp,
\* result read; between the two timestamps no buffer is allocated and no
\* input element is written; the elapsed time is end minus start.
C6_TimingIsolated ==
    /\ []LogOrdered
    /\ [][Timed => (bufs' = bufs /\ data1' = data1 /\ data2' = data2)]_vars

C6_Witness ==
    /\ pc = "done" /\ ~ub
    /\ n > 0
    /\ log = ExpectedLog
    /\ diff_t = end_t - start_t
    /\ diff_t > 0

\* C7: the kernels are interchangeable on the covered prefix -- on the same
\* inputs compute and compute_sse give the same r[j] for every
\* j in [0, floor(n/4)*4), and the same array when n is a multiple of 4.
C7_KernelsAgree ==
    (kern.pc = "both_done")
        => /\ \A j \in 0 .. Covered(kern.n) - 1 : kern.rs[j] = kern.rv[j]
           /\ (kern.n % 4 = 0 => kern.rs = kern.rv)

C7_Witness ==
    /\ kern.pc = "both_done"
    /\ kern.n = 4
    /\ kern.rs = kern.rv
    /\ \A j \in 0 .. 3 : kern.rs[j] # kern.r[j]

\* C8: for every element count n the driver holds, the loop bound nsse of
\* compute_sse is floor(n/4)*4.
C8_NsseIsFloor ==
    (prog = "sse" /\ pc \in {"compute_sse", "t1", "print", "done"})
        => nsse = Covered(n)

\* C9: with three allocated buffers at 32-byte aligned bases, every block
\* compute_sse accesses starts at a multiple of 4 with i + 4 <= n, at an
\* address that is a multiple of 16.
C9_AccessesInside ==
    (/\ pc = "compute_sse" /\ i < nsse
     /\ AllOk
     /\ \A b \in Buffers : bufs[b].base % Alignment = 0)
        => /\ i % 4 = 0
           /\ i + 4 <= n
           /\ \A b \in Buffers : (bufs[b].base + SizeofFloat * i) % 16 = 0

\* C10: every result element the driver reads after the kernel returns
\* (indices 0 to 3) is below n and was written by the kernel in this run.
C10_ReadsWritten ==
    (Len(log) > 0 /\ log[Len(log)] = "read")
        => \A k \in PrintedIdx : k < n /\ Get(result, k) # Undef

====
